---------------------------- MODULE Spec2Model ----------------------------
(***************************************************************************)
(* Model of the andon server: the accept loop (AndonServer::start), the    *)
(* per-connection handler threads (AndonServer::handleClient) and the      *)
(* single persistence worker (OutputHandler::processDataQueue) that        *)
(* appends one row per event to the per-device CSV log.                    *)
(*                                                                         *)
(* Bytes on the wire are modelled at the granularity of tokens: "O1",      *)
(* "O2", "OB" are the text of a JSON object up to, but excluding, its      *)
(* closing brace; "CL" is the closing brace; "OV" is text with a number    *)
(* too large for a double; "X" is a byte that is no JSON; "NUL" is the     *)
(* byte 0.  A device log is a sequence of lines, a line the sequence of    *)
(* its comma-separated fields (a field is taken to hold no comma and no    *)
(* line break), followed by the text after the last line break; "<cut>"    *)
(* marks the place where a write stopped short.  A double is held as its   *)
(* sign and its magnitude in tenths (15 is 1.5), so that -0.0 is a value   *)
(* of its own.  OutputHandler::excel_files is written (output_handler.cpp  *)
(* lines 97 and 116) and read nowhere: no step depends on it and the state *)
(* leaves it out.  A run is one process: load says which clients connect   *)
(* during it, faults how many writes to a log the file system may fail.    *)
(***************************************************************************)
EXTENDS Integers, Sequences, FiniteSets, TLC

\* ---------------------------------------------------------------- bounds

\* The most connections the clients open during one run of the process.
NConn == 3

Conns == 1..NConn

\* The most writes to a log that fail during one run.
MaxFaults == 2

\* The largest pin number, in absolute value, tried on getPinName.
MaxPin == 120

\* ------------------------------------------------------ program constants

\* Config::max_connections as andon_server.conf sets it here (the default
\* is 50): the backlog handed to listen (line 299).
max_connections == 1

GPIO_PIN_NAMES == [p \in {23, 24, 25, 12} |->
                     CASE p = 23 -> "Green"
                       [] p = 24 -> "Yellow"
                       [] p = 25 -> "Red"
                       [] p = 12 -> "Load"]

Header == <<"Timestamp", "Pin", "State", "Time Difference (sec)">>

ReplyOK       == "OK"
ReplyFailed   == "ERROR: Failed to process data"
ReplyInvalid  == "ERROR: Invalid JSON format"
ReplyInternal == "ERROR: Internal server error"

\* ---------------------------------------------------------------- inputs

\* Values getCurrentTime() may return when a handler evaluates it.
ServerTimes == {"T1"}

\* A double: its sign bit and its magnitude in tenths.
Dbl(n) == [neg |-> n < 0, mag |-> IF n < 0 THEN 0 - n ELSE n]
NegZero == [neg |-> TRUE, mag |-> 0]

JStr(s) == [t |-> "str", v |-> s]
JInt(i) == [t |-> "int", v |-> i]
JNum(n) == [t |-> "num", v |-> n]
JBool(b) == [t |-> "bool", v |-> b]

\* The JSON object an object token opens (its members).
Obj(tok) ==
  CASE tok = "O1" -> [device_name |-> JStr("press1"), pin |-> JInt(25),
                      state |-> JStr("on"), time_diff_sec |-> JNum(Dbl(15))]
    [] tok = "O2" -> [pin |-> JInt(99), timestamp |-> JStr("ts9")]
    [] tok = "OB" -> [device_name |-> JStr("press1"), pin |-> JBool(TRUE),
                      time_diff_sec |-> JBool(FALSE)]

ObjTokens == {"O1", "O2", "OB"}

\* What a client may send on one connection: the chunks recv returns, in
\* order.  A client may stop after any prefix of a script.
Scripts ==
  { << <<"O1", "CL">> >>,
    << <<"O1">>, <<"CL">> >>,
    << <<"O2", "CL">> >>,
    << <<"OB", "CL">> >>,
    << <<"X">> >>,
    << <<"OV">> >>,
    << <<"O1">>, <<"OV">> >>,
    << <<"NUL", "X">> >>,
    << <<"O2", "CL", "NUL", "X">> >> }

\* The clients of one run: for each connection, in the order the server
\* accepts them, the scripts its client may follow.  "mixed": a client that
\* may send anything and a client that sends a whole document; "events": two
\* clients that send documents, one of them in two pieces or with a number
\* out of range; "devices": two events for press1 and one for another device
\* ("unknown", the name the event of a document without device_name gets).
Loads == {"mixed", "events", "devices"}

Offered(ld) ==
  CASE ld = "mixed" ->
         << Scripts, { << <<"O1", "CL">> >>, << <<"O2", "CL">> >> } >>
    [] ld = "events" ->
         << { << <<"O1">>, <<"CL">> >>, << <<"OV">> >> },
            { << <<"O1", "CL">> >>, << <<"O2", "CL">> >> } >>
    [] ld = "devices" ->
         << { << <<"O1", "CL">> >> },
            { << <<"O1">>, <<"CL">> >>, << <<"O1">>, <<"OV">> >> },
            { << <<"O2", "CL">> >> } >>

\* The connections of a run.
Clients(ld) == 1..Len(Offered(ld))

Chunks == UNION { {s[i] : i \in 1..Len(s)} : s \in Scripts }

\* The bytes of the first k chunks of a script.
RECURSIVE Bytes(_, _)
Bytes(s, k) == IF k = 0 THEN << >> ELSE Bytes(s, k - 1) \o s[k]

Devices == {"press1", "unknown"}

\* ---------------------------------------------------------- pure functions

\* std::string::operator+=(const char*): the bytes of the buffer up to its
\* first 0 byte.
RECURSIVE CStr(_)
CStr(buf) ==
  IF buf = << >> \/ Head(buf) = "NUL" THEN << >>
  ELSE <<Head(buf)>> \o CStr(Tail(buf))

\* json::parse returns a document: the text is one whole JSON object.
ParseOk(text) == Len(text) = 2 /\ text[1] \in ObjTokens /\ text[2] = "CL"

\* json::parse throws json::out_of_range, not parse_error, for a number too
\* large for a double, when the text up to the number is well-formed: "OV"
\* is such a number, as the whole text or as the value of a further member.
ParseOverflows(text) ==
  \/ Len(text) >= 1 /\ text[1] = "OV"
  \/ Len(text) >= 2 /\ text[1] \in ObjTokens /\ text[2] = "OV"

\* What json::parse does with a text (lines 188 and 199).
ParseKind(text) ==
  IF ParseOverflows(text) THEN "out_of_range"
  ELSE IF ParseOk(text) THEN "ok"
  ELSE "parse_error"

Parse(text) == Obj(text[1])

\* json::value(key, default) for a string, an int and a double.
TypeOk(doc, key, types) == key \notin DOMAIN doc \/ doc[key].t \in types

ValueStr(doc, key, default) ==
  IF key \in DOMAIN doc THEN doc[key].v ELSE default

\* static_cast<int> of a double: the fraction is cut off, towards zero.
\* (Values that do not fit an int are outside the model.)
Truncate(d) == IF d.neg THEN 0 - (d.mag \div 10) ELSE d.mag \div 10

\* value<int>: an integer as it is, a floating-point number truncated, a
\* boolean as 1 or 0.
ValueInt(doc, key, default) ==
  IF key \in DOMAIN doc
  THEN CASE doc[key].t = "num"  -> Truncate(doc[key].v)
         [] doc[key].t = "bool" -> (IF doc[key].v THEN 1 ELSE 0)
         [] OTHER               -> doc[key].v
  ELSE default

\* value<double>: a floating-point number as it is, an integer converted.
\* (A boolean is not converted: FieldsOk.)
ValueNum(doc, key, default) ==
  IF key \in DOMAIN doc
  THEN (IF doc[key].t = "int" THEN Dbl(doc[key].v * 10) ELSE doc[key].v)
  ELSE default

\* Lines 201-205: no member has a type value() cannot convert.  value<int>
\* converts a boolean, value<double> throws type_error for it.
FieldsOk(doc) ==
  /\ TypeOk(doc, "device_name", {"str"})
  /\ TypeOk(doc, "pin", {"int", "num", "bool"})
  /\ TypeOk(doc, "state", {"str"})
  /\ TypeOk(doc, "time_diff_sec", {"int", "num"})
  /\ TypeOk(doc, "timestamp", {"str"})

\* Lines 201-215: the device name and the GPIOData built from a document.
MakeEvent(doc, now) ==
  [device_name   |-> ValueStr(doc, "device_name", "unknown"),
   pin           |-> ValueInt(doc, "pin", 0),
   state         |-> ValueStr(doc, "state", "unknown"),
   time_diff_sec |-> ValueNum(doc, "time_diff_sec", Dbl(0)),
   timestamp     |-> ValueStr(doc, "timestamp", now)]

\* Mutant: a pin without a label gets its bare number.
getPinNameBare(pin) ==
  IF pin \in DOMAIN GPIO_PIN_NAMES THEN GPIO_PIN_NAMES[pin] ELSE ToString(pin)

getPinName(pin) ==
  IF pin \in DOMAIN GPIO_PIN_NAMES THEN GPIO_PIN_NAMES[pin]
  ELSE "Pin_" \o ToString(pin)

RECURSIVE Pow10(_)
Pow10(k) == IF k = 0 THEN 1 ELSE 10 * Pow10(k - 1)

\* The number of decimal digits of a > 0.
RECURSIVE NumDigits(_)
NumDigits(a) == IF a < 10 THEN 1 ELSE 1 + NumDigits(a \div 10)

\* a divided by scale, rounded to the nearest integer, a tie to the even one.
RoundHalfEven(a, scale) ==
  LET q == a \div scale
      r == a % scale
  IN  IF 2 * r > scale \/ (2 * r = scale /\ q % 2 = 1) THEN q + 1 ELSE q

\* The digits of m > 0 without its trailing zeros.
RECURSIVE StripZeros(_)
StripZeros(m) == IF m % 10 = 0 THEN StripZeros(m \div 10) ELSE m

RECURSIVE Zeros(_)
Zeros(j) == IF j <= 0 THEN "" ELSE "0" \o Zeros(j - 1)

\* The mantissa m (one to six digits, no trailing zero) as d.ddddd
Mantissa(m) ==
  LET k == NumDigits(m)
      lead == m \div Pow10(k - 1)
      rest == m % Pow10(k - 1)
  IN  IF k = 1 THEN ToString(lead)
      ELSE ToString(lead) \o "." \o Zeros(k - 1 - NumDigits(rest)) \o ToString(rest)

\* operator<<(double) with the stream's defaults (printf %g, precision 6):
\* the sign of the double, -0.0 included, then at most six significant
\* digits, rounded to nearest (a tie to even), trailing zeros dropped, and the
\* exponent form d.ddddde+XX from 1e+06 on.  (More decimals than tenths are
\* outside the model.)
FormatDouble(d) ==
  LET a == d.mag
      sign == IF d.neg THEN "-" ELSE ""
      digits == NumDigits(a)
      \* six significant digits of a and the decimal exponent of the value
      scale == IF digits > 6 THEN Pow10(digits - 6) ELSE 1
      m0 == RoundHalfEven(a, scale)
      carry == digits > 6 /\ m0 = Pow10(6)
      m == IF carry THEN Pow10(5) ELSE m0
      exp == (digits - 2) + (IF carry THEN 1 ELSE 0)
  IN  IF a = 0 THEN sign \o "0"
      ELSE IF digits <= 6
      THEN (IF a % 10 = 0 THEN sign \o ToString(a \div 10)
            ELSE sign \o ToString(a \div 10) \o "." \o ToString(a % 10))
      ELSE IF exp < 6 THEN sign \o ToString(m)
      ELSE sign \o Mantissa(StripZeros(m)) \o "e+"
             \o (IF exp < 10 THEN "0" ELSE "") \o ToString(exp)

\* Mutant: the state is written before the pin label.
DataRowStateFirst(ev) ==
  <<ev.timestamp, ev.state, getPinName(ev.pin), FormatDouble(ev.time_diff_sec)>>

\* Lines 87-90: the data row of an event.
DataRow(ev) ==
  <<ev.timestamp, getPinName(ev.pin), ev.state, FormatDouble(ev.time_diff_sec)>>

\* ------------------------------------------------------------------ state

VARIABLES
  proc,            \* the process: "alive", "exited" (main returned), "crashed"
                   \* (undefined behaviour ended it), "killed" (by SIGPIPE),
                   \* "xfsz" (killed by SIGXFSZ)
  spc,             \* where the main thread is in start() and cleanup()
  running,         \* AndonServer::running
  output_handler,  \* AndonServer::output_handler: "live", "dangling", "null"
  accepted,        \* connections accepted so far
  server_socket,   \* start()'s server_socket: "none", "listening", "closed",
                   \* "failed" (socket, bind or listen failed)
  oh_running,      \* OutputHandler::running
  data_queue,      \* OutputHandler::data_queue
  queue_mutex,     \* OutputHandler::queue_mutex: its holder
  wpc,             \* where the worker is in processDataQueue()
  item,            \* processDataQueue's item, << >> while has_data is false
  files,           \* the CSV file of each device on disk
  hpc,             \* where each handler thread is in handleClient();
                   \* "nothread" for a connection whose thread was not created
  data,            \* handleClient's data (the accumulated text)
  event,           \* handleClient's device_name and gpio_data, once built
  success,         \* handleClient's success
  sock,            \* each client socket: "none", "open", "closed"
  sent,            \* the replies the server's send() calls put on each
                   \* connection, in order
  rcvd,            \* the bytes recv returned on each connection, until it closes
  decoded,         \* history: the events built, with their connections, in order
  pushed,          \* history: connections in the order addData pushed them
  appendLog,       \* history: the calls of addDataToExcel, in order
  faults,          \* how many more writes to a log the file system may fail
  file0,           \* history: the files as they were when the process started
  load             \* the clients of this run, one of Loads

vars == <<proc, spc, running, output_handler, accepted, server_socket,
          oh_running,
          data_queue, queue_mutex, wpc, item, files, hpc, data,
          event, success, sock, sent, rcvd, decoded, pushed, appendLog,
          faults, file0, load>>

\* What is fixed when the process starts.
fixedVars   == <<file0, load>>
serverVars  == <<spc, running, output_handler, accepted, server_socket>>
workerVars  == <<oh_running, wpc, item, files, faults, appendLog>>
handlerVars == <<hpc, data, event, success, sock, sent, rcvd, decoded,
                 pushed>>

Free         == << >>
ByWorker     == <<"worker">>
ByHandler(c) == <<"handler", c>>

\* A file: its whole lines, and tail, the text after the last line break.
Absent    == [exists |-> FALSE, lines |-> << >>, tail |-> << >>]
EmptyFile == [exists |-> TRUE, lines |-> << >>, tail |-> << >>]
\* A log an earlier run of the server left behind.
OldFile   == [exists |-> TRUE,
              lines |-> <<Header, <<"ts0", "Green", "on", "0">> >>,
              tail |-> << >>]

\* The state once AndonServer is constructed (lines 65-93) and the worker
\* thread is started (lines 12-24), every log starting as one of starts and
\* the clients being those of ld, and at most nf writes to a log failing.
InitWith(starts, ld, nf) ==
  /\ proc = "alive"
  /\ spc = "start"
  /\ running = TRUE
  /\ output_handler = "live"
  /\ accepted = 0
  /\ server_socket = "none"
  /\ oh_running = TRUE
  /\ data_queue = << >>
  /\ queue_mutex = Free
  /\ wpc = "check"
  /\ item = << >>
  /\ \E f \in starts : files = [d \in Devices |-> f]
  /\ hpc = [c \in Conns |-> "idle"]
  /\ data = [c \in Conns |-> << >>]
  /\ event = [c \in Conns |-> << >>]
  /\ success = [c \in Conns |-> FALSE]
  /\ sock = [c \in Conns |-> "none"]
  /\ sent = [c \in Conns |-> << >>]
  /\ rcvd = [c \in Conns |-> << >>]
  /\ decoded = << >>
  /\ pushed = << >>
  /\ appendLog = << >>
  /\ faults = nf
  /\ file0 = files
  /\ load = ld

Init ==
  \/ InitWith({Absent}, "mixed", 1)
  \/ InitWith({EmptyFile, OldFile}, "events", MaxFaults)

\* The logs do not exist yet.
FreshInit == InitWith({Absent}, "events", MaxFaults)

\* Three clients, two devices, the logs not there yet, once the first
\* client is served: the server is in its accept loop, the first handler has
\* decoded the client's event for press1, inserted it into the queue, sent
\* OK and closed, and the worker has not taken the event yet.
DevInit ==
  LET e == MakeEvent(Obj("O1"), "T1")
  IN  /\ proc = "alive"
      /\ spc = "loop"
      /\ running = TRUE
      /\ output_handler = "live"
      /\ accepted = 1
      /\ server_socket = "listening"
      /\ oh_running = TRUE
      /\ data_queue = <<[conn |-> 1, ev |-> e]>>
      /\ queue_mutex = Free
      /\ wpc = "check"
      /\ item = << >>
      /\ files = [d \in Devices |-> Absent]
      /\ hpc = [c \in Conns |-> IF c = 1 THEN "closed" ELSE "idle"]
      /\ data = [c \in Conns |-> << >>]
      /\ event = [c \in Conns |-> << >>]
      /\ success = [c \in Conns |-> FALSE]
      /\ sock = [c \in Conns |-> IF c = 1 THEN "closed" ELSE "none"]
      /\ sent = [c \in Conns |-> IF c = 1 THEN <<ReplyOK>> ELSE << >>]
      /\ rcvd = [c \in Conns |-> << >>]
      /\ decoded = <<[conn |-> 1, ev |-> e]>>
      /\ pushed = <<1>>
      /\ appendLog = << >>
      /\ faults = MaxFaults
      /\ file0 = files
      /\ load = "devices"

\* ------------------------------------------------------------ main thread

\* start(), lines 268-310: socket, bind and listen all succeed.
StartListen ==
  /\ proc = "alive" /\ spc = "start"
  /\ spc' = "loop"
  /\ server_socket' = "listening"
  /\ UNCHANGED <<proc, running, output_handler, accepted, data_queue,
                 queue_mutex, fixedVars>>
  /\ UNCHANGED <<workerVars, handlerVars>>

\* Mutant: the return after the failure is missing.
StartFailsNoReturn ==
  /\ proc = "alive" /\ spc = "start"
  /\ spc' = "loop"
  /\ server_socket' = "failed"
  /\ UNCHANGED <<proc, running, output_handler, accepted, data_queue,
                 queue_mutex, fixedVars>>
  /\ UNCHANGED <<workerVars, handlerVars>>

\* start(), lines 269-303: socket, bind or listen fails; start returns and
\* ~AndonServer runs cleanup().
StartFails ==
  /\ proc = "alive" /\ spc = "start"
  /\ spc' = "cleanup"
  /\ server_socket' = "failed"
  /\ UNCHANGED <<proc, running, output_handler, accepted, data_queue,
                 queue_mutex, fixedVars>>
  /\ UNCHANGED <<workerVars, handlerVars>>

\* Line 312, while (running); after the loop, lines 340-347.
LoopCheck ==
  /\ proc = "alive" /\ spc = "loop"
  /\ spc' = IF running THEN "accept" ELSE "cleanup"
  /\ server_socket' = IF running THEN server_socket ELSE "closed"
  /\ UNCHANGED <<proc, running, output_handler, accepted, data_queue,
                 queue_mutex, fixedVars>>
  /\ UNCHANGED <<workerVars, handlerVars>>

\* Mutant: a connection is accepted only while fewer than max_connections
\* handlers are running.
AcceptConnectionCapped ==
  /\ proc = "alive" /\ spc = "accept"
  /\ accepted < Len(Offered(load))
  /\ Cardinality({c \in Conns : hpc[c] \notin {"idle", "nothread", "closed"}})
       < max_connections
  /\ accepted' = accepted + 1
  /\ hpc' = [hpc EXCEPT ![accepted + 1] = "recv"]
  /\ sock' = [sock EXCEPT ![accepted + 1] = "open"]
  /\ spc' = "loop"
  /\ UNCHANGED <<proc, running, output_handler, server_socket, data_queue,
                 queue_mutex, fixedVars, data, event, success, sent, rcvd,
                 decoded, pushed>>
  /\ UNCHANGED workerVars

\* Lines 322-337: accept returns a connection; a detached thread runs
\* handleClient on it.
AcceptConnection ==
  /\ proc = "alive" /\ spc = "accept"
  /\ accepted < Len(Offered(load))
  /\ accepted' = accepted + 1
  /\ hpc' = [hpc EXCEPT ![accepted + 1] = "recv"]
  /\ sock' = [sock EXCEPT ![accepted + 1] = "open"]
  /\ spc' = "loop"
  /\ UNCHANGED <<proc, running, output_handler, server_socket, data_queue,
                 queue_mutex, fixedVars, data, event, success, sent, rcvd,
                 decoded, pushed>>
  /\ UNCHANGED workerVars

\* Lines 322-336 and 343-347: accept returns a connection and the thread
\* for it cannot be created.  std::thread's constructor throws, the catch of
\* line 343 takes it and cleanup() runs: running is still true, the
\* CLOSE_SOCKET of line 340 is skipped, and the connection has no handler
\* and its socket is never closed.
AcceptThreadFails ==
  /\ proc = "alive" /\ spc = "accept"
  /\ accepted < Len(Offered(load))
  /\ accepted' = accepted + 1
  /\ hpc' = [hpc EXCEPT ![accepted + 1] = "nothread"]
  /\ sock' = [sock EXCEPT ![accepted + 1] = "open"]
  /\ spc' = "cleanup"
  /\ UNCHANGED <<proc, running, output_handler, server_socket, data_queue,
                 queue_mutex, fixedVars, data, event, success, sent, rcvd,
                 decoded, pushed>>
  /\ UNCHANGED workerVars

\* Lines 322-329: accept returns an error (its timeout among them).
AcceptFails ==
  /\ proc = "alive" /\ spc = "accept"
  /\ spc' = IF running THEN "loop" ELSE "cleanup"
  /\ server_socket' = IF running THEN server_socket ELSE "closed"
  /\ UNCHANGED <<proc, running, output_handler, accepted, data_queue,
                 queue_mutex, fixedVars>>
  /\ UNCHANGED <<workerVars, handlerVars>>

\* signalHandler and stop(), lines 102-104 and 249-254.
signalHandler ==
  /\ proc = "alive"
  /\ running' = FALSE
  /\ UNCHANGED <<proc, spc, output_handler, accepted, data_queue,
                 queue_mutex, fixedVars, server_socket>>
  /\ UNCHANGED <<workerVars, handlerVars>>

\* AndonServer::cleanup line 259 into OutputHandler::cleanup line 124.
CleanupStop ==
  /\ proc = "alive" /\ spc = "cleanup"
  /\ output_handler = "live"
  /\ oh_running' = FALSE
  /\ spc' = "join"
  /\ UNCHANGED <<proc, running, output_handler, accepted, server_socket,
                 data_queue, queue_mutex, fixedVars, wpc, item, files, faults, appendLog>>
  /\ UNCHANGED handlerVars

\* OutputHandler::cleanup lines 127-129: join returns once the worker has
\* left processDataQueue.
CleanupJoin ==
  /\ proc = "alive" /\ spc = "join"
  /\ wpc = "exited"
  /\ spc' = "delete"
  /\ UNCHANGED <<proc, running, output_handler, accepted, data_queue,
                 queue_mutex, fixedVars, server_socket>>
  /\ UNCHANGED <<workerVars, handlerVars>>

\* AndonServer::cleanup line 260: the OutputHandler is destroyed (its
\* destructor's cleanup() finds the thread joined).  The freed queue keeps
\* its last contents in the model.
CleanupDelete ==
  /\ proc = "alive" /\ spc = "delete"
  /\ output_handler' = "dangling"
  /\ spc' = "clear"
  /\ UNCHANGED <<proc, running, accepted, server_socket, data_queue,
                 queue_mutex, fixedVars>>
  /\ UNCHANGED <<workerVars, handlerVars>>

\* AndonServer::cleanup line 261.
CleanupClear ==
  /\ proc = "alive" /\ spc = "clear"
  /\ output_handler' = "null"
  /\ spc' = "return"
  /\ UNCHANGED <<proc, running, accepted, server_socket, data_queue,
                 queue_mutex, fixedVars>>
  /\ UNCHANGED <<workerVars, handlerVars>>

\* main returns (~AndonServer's cleanup() finds the pointer null): the
\* process ends and takes the detached handler threads with it.
ProcessExit ==
  /\ proc = "alive" /\ spc = "return"
  /\ proc' = "exited"
  /\ spc' = "done"
  /\ UNCHANGED <<running, output_handler, accepted, data_queue, queue_mutex,
                 fixedVars, server_socket>>
  /\ UNCHANGED <<workerVars, handlerVars>>

\* ----------------------------------------------------------------- worker

\* Mutant: the worker leaves its loop only once the queue is empty.
WorkerCheckDrains ==
  /\ proc = "alive" /\ wpc = "check"
  /\ wpc' = IF oh_running \/ data_queue /= << >> THEN "lock" ELSE "exited"
  /\ UNCHANGED <<proc, data_queue, queue_mutex, fixedVars, oh_running, item,
                 files, faults, appendLog>>
  /\ UNCHANGED <<serverVars, handlerVars>>

\* Line 31, while (running).
WorkerCheck ==
  /\ proc = "alive" /\ wpc = "check"
  /\ wpc' = IF oh_running THEN "lock" ELSE "exited"
  /\ UNCHANGED <<proc, data_queue, queue_mutex, fixedVars, oh_running, item,
                 files, faults, appendLog>>
  /\ UNCHANGED <<serverVars, handlerVars>>

\* Line 36: the lock_guard takes queue_mutex.
WorkerLock ==
  /\ proc = "alive" /\ wpc = "lock"
  /\ queue_mutex = Free
  /\ queue_mutex' = ByWorker
  /\ wpc' = "locked"
  /\ UNCHANGED <<proc, data_queue, fixedVars, oh_running, item, files, faults, appendLog>>
  /\ UNCHANGED <<serverVars, handlerVars>>

\* Mutant: the worker takes the newest entry.
FrontNewest(q) == q[Len(q)]

\* Mutant: the entry taken stays in the queue.
PopKeeps(q) == q

\* std::queue::front and pop, lines 38-39.
Front(q) == Head(q)
Pop(q)   == Tail(q)

\* Mutant: the lock_guard's scope is the whole iteration, so the lock is
\* still held when the poll is over.
WorkerPollKeepsLock ==
  /\ proc = "alive" /\ wpc = "locked"
  /\ IF data_queue /= << >>
     THEN /\ item' = <<Front(data_queue)>>
          /\ data_queue' = Pop(data_queue)
          /\ wpc' = "append"
     ELSE /\ wpc' = "sleep"
          /\ UNCHANGED <<item, data_queue>>
  /\ UNCHANGED queue_mutex
  /\ UNCHANGED <<proc, fixedVars, oh_running, files, faults, appendLog>>
  /\ UNCHANGED <<serverVars, handlerVars>>

\* Lines 37-42: the poll under the lock, and the lock_guard's release.
WorkerPoll ==
  /\ proc = "alive" /\ wpc = "locked"
  /\ IF data_queue /= << >>
     THEN /\ item' = <<Front(data_queue)>>
          /\ data_queue' = Pop(data_queue)
          /\ wpc' = "append"
     ELSE /\ wpc' = "sleep"
          /\ UNCHANGED <<item, data_queue>>
  /\ queue_mutex' = Free
  /\ UNCHANGED <<proc, fixedVars, oh_running, files, faults, appendLog>>
  /\ UNCHANGED <<serverVars, handlerVars>>

\* A write that stopped part of the way (the disk filled up, the file
\* reached its size limit): what is in the file is a part of text, not empty
\* and not all of it.  The part is held as the fields of text followed by the
\* mark "<cut>"; where the cut fell is not told apart.
Cut(text) == text \o <<"<cut>">>

\* What the file system may do with one line the stream hands it, when
\* std::endl flushes the line and when close() writes it again: all of it is
\* written ("whole"); a part of it ("cut") or nothing ("none") is written
\* and write() reports the error (the disk is full), which throws nothing and
\* sets a stream state that is not tested (lines 83-92); or the write meets
\* the file size limit of the process and raises SIGXFSZ, whose disposition
\* the program never changes, so that the process is killed inside
\* addDataToExcel, a part of the line written before ("cutsig") or nothing
\* ("sig").
WriteOutcomes == {"whole", "cut", "none", "cutsig", "sig"}

\* The writes that raise SIGXFSZ.
Kills(w) == w \in {"cutsig", "sig"}

\* The outcomes left to a write, and what a write leaves of faults.
OutcomesLeft == IF faults > 0 THEN WriteOutcomes ELSE {"whole"}
FaultsAfter(w) == IF w = "whole" THEN faults ELSE faults - 1

\* One write of a line (lines 83, 87-90 and 92) on a stream opened with
\* std::ios::app: the text goes to the end of the file, after whatever the
\* cut writes before it left there, and its line break ends the line.
WriteLine(f, text, w) ==
  CASE w = "whole" -> [f EXCEPT !.lines = Append(@, f.tail \o text),
                                !.tail = << >>]
    [] w \in {"cut", "cutsig"} -> [f EXCEPT !.tail = @ \o Cut(text)]
    [] w \in {"none", "sig"}   -> f

\* SIGXFSZ at its default disposition: the process ends where it is, the
\* worker inside addDataToExcel with its item.
KilledInWrite ==
  /\ proc' = "xfsz"
  /\ UNCHANGED <<wpc, item, appendLog, data_queue>>

\* Line 82: the header is written into a file of size 0.
HeaderDue(f) == f.lines = << >> /\ f.tail = << >>

\* Mutant: every device's rows go to one file.
CsvPathShared(device_name) == "unknown"

\* Line 77: the file an event goes to is named after its device.
CsvPath(device_name) == device_name

\* Mutant: an event whose append failed is put back into the queue.
AppendReturnsRetries(io) ==
  /\ appendLog' = Append(appendLog,
                         [conn |-> item[1].conn, ev |-> item[1].ev, io |-> io])
  /\ data_queue' = IF io = "ok" THEN data_queue
                   ELSE Append(data_queue, item[1])
  /\ item' = << >>
  /\ wpc' = "check"

\* addDataToExcel returns to processDataQueue (lines 100-111, then line 31).
\* How the call ended: the row and its line break were written whole, by
\* the flush or by close() ("ok"); the code logs success (line 100) although
\* the row was not written whole ("lost"); the code logs an error (lines
\* 103, 108) ("error").  Nothing is put back into the queue.
AppendReturns(io) ==
  /\ appendLog' = Append(appendLog,
                         [conn |-> item[1].conn, ev |-> item[1].ev, io |-> io])
  /\ data_queue' = data_queue
  /\ item' = << >>
  /\ wpc' = "check"

\* Lines 44-45 and 68-80: addDataToExcel is entered and the stream opens,
\* creating the file if it is not there; or the stream does not open (lines
\* 102-105) or fs::exists throws (line 71, then the catch of line 107), and
\* the call returns with the file untouched.  (createNewExcel, lines 71-73
\* and 113-120, writes excel_files only.)
WorkerAppendOpen ==
  /\ proc = "alive" /\ wpc = "append"
  /\ \/ /\ files' = [files EXCEPT
                       ![CsvPath(item[1].ev.device_name)].exists = TRUE]
        /\ wpc' = "header"
        /\ UNCHANGED <<item, appendLog, data_queue>>
     \/ /\ AppendReturns("error")
        /\ UNCHANGED files
  /\ UNCHANGED faults
  /\ UNCHANGED <<proc, queue_mutex, fixedVars, oh_running>>
  /\ UNCHANGED <<serverVars, handlerVars>>

\* Line 79: the stream's open blocks for good (the .csv path is a FIFO nobody
\* reads) and addDataToExcel does not return.  The worker stays in the call,
\* holding the item and no lock.
WorkerAppendBlocks ==
  /\ proc = "alive" /\ wpc = "append"
  /\ wpc' = "blocked"
  /\ UNCHANGED <<proc, data_queue, queue_mutex, fixedVars, oh_running, item,
                 files, faults, appendLog>>
  /\ UNCHANGED <<serverVars, handlerVars>>

\* Lines 82-84: the header goes into a file of size 0; or fs::file_size
\* throws and the call returns through the catch of line 107.  After a
\* flush that did not write the header whole the stream is bad and its
\* buffer keeps the header line ("rowbad"); a write that meets the file
\* size limit kills the process.
WorkerAppendHeader ==
  /\ proc = "alive" /\ wpc = "header"
  /\ LET d == CsvPath(item[1].ev.device_name)
     IN  \/ /\ HeaderDue(files[d])
            /\ \E w \in OutcomesLeft :
                 /\ files' = [files EXCEPT ![d] = WriteLine(@, Header, w)]
                 /\ faults' = FaultsAfter(w)
                 /\ IF Kills(w)
                    THEN KilledInWrite
                    ELSE /\ wpc' = IF w = "whole" THEN "row" ELSE "rowbad"
                         /\ UNCHANGED <<proc, item, appendLog, data_queue>>
         \/ /\ ~HeaderDue(files[d])
            /\ wpc' = "row"
            /\ UNCHANGED <<proc, files, faults, item, appendLog, data_queue>>
         \/ /\ AppendReturns("error")
            /\ UNCHANGED <<proc, files, faults>>
  /\ UNCHANGED <<queue_mutex, fixedVars, oh_running>>
  /\ UNCHANGED <<serverVars, handlerVars>>

\* Lines 87-101 on a good stream: the row is written and flushed.  When it
\* is written whole, close() has nothing to write and the call returns,
\* success logged.  When it is not, the stream is bad and its buffer keeps
\* the row line for close() ("close"); a write that meets the file size
\* limit kills the process.  (Lines 94-98 write excel_files only.)
WorkerAppendRow ==
  /\ proc = "alive" /\ wpc = "row"
  /\ LET e == item[1]
         d == CsvPath(e.ev.device_name)
     IN  \E w \in OutcomesLeft :
           /\ files' = [files EXCEPT ![d] = WriteLine(@, DataRow(e.ev), w)]
           /\ faults' = FaultsAfter(w)
           /\ CASE w = "whole" -> AppendReturns("ok") /\ UNCHANGED proc
                [] Kills(w)    -> KilledInWrite
                [] OTHER       -> /\ wpc' = "close"
                                  /\ UNCHANGED <<proc, item, appendLog,
                                                 data_queue>>
  /\ UNCHANGED <<queue_mutex, fixedVars, oh_running>>
  /\ UNCHANGED <<serverVars, handlerVars>>

\* The line the stream's buffer holds after a flush that failed: the header
\* line, or the row line of the worker's item.
Pending == IF wpc = "rowbad" THEN Header ELSE DataRow(item[1].ev)

\* Lines 87-101 on a bad stream: operator<< puts nothing more into the
\* stream (after a header that failed the row is not written at all), and
\* close() (line 92) writes the whole buffered line once more, whatever
\* part of it the flush had written: whole, cut short again, or not at all.
\* Success is logged (line 100) whatever became of the writes, unless
\* the write of close() meets the file size limit and the process is killed.
WorkerAppendClose ==
  /\ proc = "alive" /\ wpc \in {"rowbad", "close"}
  /\ LET d == CsvPath(item[1].ev.device_name)
     IN  \E w \in OutcomesLeft :
           /\ files' = [files EXCEPT ![d] = WriteLine(@, Pending, w)]
           /\ faults' = FaultsAfter(w)
           /\ IF Kills(w)
              THEN KilledInWrite
              ELSE /\ AppendReturns(IF wpc = "close" /\ w = "whole"
                                    THEN "ok" ELSE "lost")
                   /\ UNCHANGED proc
  /\ UNCHANGED <<queue_mutex, fixedVars, oh_running>>
  /\ UNCHANGED <<serverVars, handlerVars>>

\* Lines 46-48: the idle wait.
WorkerSleep ==
  /\ proc = "alive" /\ wpc = "sleep"
  /\ wpc' = "check"
  /\ UNCHANGED <<proc, data_queue, queue_mutex, fixedVars, oh_running, item,
                 files, faults, appendLog>>
  /\ UNCHANGED <<serverVars, handlerVars>>

\* --------------------------------------------------------------- handlers

\* Mutant: the test of success is inverted.
ReplyForInverted(ok) == IF ok THEN ReplyFailed ELSE ReplyOK

\* Lines 220-228: the reply for addData's result.
ReplyFor(ok) == IF ok THEN ReplyOK ELSE ReplyFailed

\* Lines 196-239, for a text that yields no event: nothing is sent for no
\* text (line 196), the invalid-format reply for a text that does not parse
\* (line 233), the internal-error reply when value() throws (line 237).
ErrorReply(d) ==
  IF d = << >> THEN << >>
  ELSE IF ~ParseOk(d) THEN <<ReplyInvalid>>
  ELSE <<ReplyInternal>>

\* What send() with flags 0 may do, the disposition of SIGPIPE never
\* changed: the reply is handed to the socket ("sent"); the connection is
\* shut for writing after the client's reset, send raises SIGPIPE and the
\* process is killed ("sigpipe"); the client's reset is pending on the
\* socket, send returns -1 with ECONNRESET, raises no signal and hands
\* nothing to the socket ("reset").
SendOutcomes == {"sent", "sigpipe", "reset"}

\* Lines 223, 227, 233 and 237: one send, its result not looked at.  After
\* a send that returned the handler goes on to its close (line 245).
Send(c, msg, o) ==
  CASE o = "sent" ->
         /\ sent' = [sent EXCEPT ![c] = Append(@, msg)]
         /\ hpc' = [hpc EXCEPT ![c] = "close"]
         /\ UNCHANGED proc
    [] o = "sigpipe" ->
         /\ proc' = "killed"
         /\ UNCHANGED <<sent, hpc>>
    [] o = "reset" ->
         /\ hpc' = [hpc EXCEPT ![c] = "close"]
         /\ UNCHANGED <<sent, proc>>

\* Mutant: the handler reports the error and stays in the receive loop.
AfterLoopKeepsReading(c, d, outs) ==
  /\ data' = [data EXCEPT ![c] = d]
  /\ IF d /= << >> /\ ParseOk(d) /\ FieldsOk(Parse(d))
     THEN /\ \E now \in ServerTimes :
               /\ event' = [event EXCEPT ![c] = <<MakeEvent(Parse(d), now)>>]
               /\ decoded' = Append(decoded, [conn |-> c,
                                              ev |-> MakeEvent(Parse(d), now)])
          /\ hpc' = [hpc EXCEPT ![c] = "addData"]
          /\ UNCHANGED <<sent, proc>>
     ELSE /\ sent' = [sent EXCEPT ![c] = @ \o ErrorReply(d)]
          /\ hpc' = [hpc EXCEPT ![c] = IF d = << >> THEN "close" ELSE "recv"]
          /\ UNCHANGED <<event, decoded, proc>>

\* Lines 196-239, once the receive loop has ended with text d: the event is
\* built and the handler goes on to addData; or there is no text and the
\* handler goes on to close; or the handler sends what ErrorReply says, outs
\* being what that send can do.
AfterLoop(c, d, outs) ==
  /\ data' = [data EXCEPT ![c] = d]
  /\ IF d /= << >> /\ ParseOk(d) /\ FieldsOk(Parse(d))
     THEN /\ \E now \in ServerTimes :
               /\ event' = [event EXCEPT ![c] = <<MakeEvent(Parse(d), now)>>]
               /\ decoded' = Append(decoded, [conn |-> c,
                                              ev |-> MakeEvent(Parse(d), now)])
          /\ hpc' = [hpc EXCEPT ![c] = "addData"]
          /\ UNCHANGED <<sent, proc>>
     ELSE /\ IF ErrorReply(d) = << >>
             THEN /\ hpc' = [hpc EXCEPT ![c] = "close"]
                  /\ UNCHANGED <<sent, proc>>
             ELSE \E o \in outs : Send(c, ErrorReply(d)[1], o)
          /\ UNCHANGED <<event, decoded>>

\* The client sends chunk next on connection c.
ClientSends(c, chunk) ==
  \E s \in Offered(load)[c] : \E k \in 1..Len(s) :
     s[k] = chunk /\ Bytes(s, k - 1) = rcvd[c]

\* Lines 180-188 and 240-243: recv returns bytes and json::parse throws
\* json::out_of_range, which the catch of line 190 does not take: the catch
\* of line 240 ends the handler with nothing sent.
RecvParseThrows(c) ==
  /\ proc = "alive" /\ hpc[c] = "recv"
  /\ \E chunk \in Chunks :
       /\ ClientSends(c, chunk)
       /\ ParseKind(data[c] \o CStr(chunk)) = "out_of_range"
       /\ data' = [data EXCEPT ![c] = data[c] \o CStr(chunk)]
       /\ rcvd' = [rcvd EXCEPT ![c] = @ \o chunk]
  /\ hpc' = [hpc EXCEPT ![c] = "close"]
  /\ UNCHANGED <<proc, data_queue, queue_mutex, fixedVars, event, success,
                 sock, sent, decoded, pushed>>
  /\ UNCHANGED <<serverVars, workerVars>>

\* Lines 180-193: recv returns bytes, and json::parse throws parse_error for
\* the text so far.
RecvContinue(c) ==
  /\ proc = "alive" /\ hpc[c] = "recv"
  /\ \E chunk \in Chunks :
       /\ ClientSends(c, chunk)
       /\ ParseKind(data[c] \o CStr(chunk)) = "parse_error"
       /\ data' = [data EXCEPT ![c] = data[c] \o CStr(chunk)]
       /\ rcvd' = [rcvd EXCEPT ![c] = @ \o chunk]
  /\ UNCHANGED <<proc, data_queue, queue_mutex, fixedVars, hpc, event, success,
                 sock, sent, decoded, pushed>>
  /\ UNCHANGED <<serverVars, workerVars>>

\* Lines 180-189 and 196-239: recv returns bytes and the text parses.
RecvComplete(c) ==
  /\ proc = "alive" /\ hpc[c] = "recv"
  /\ \E chunk \in Chunks :
       /\ ClientSends(c, chunk)
       /\ ParseKind(data[c] \o CStr(chunk)) = "ok"
       /\ rcvd' = [rcvd EXCEPT ![c] = @ \o chunk]
       /\ AfterLoop(c, data[c] \o CStr(chunk), SendOutcomes)
  /\ UNCHANGED <<data_queue, queue_mutex, fixedVars, success, sock, pushed>>
  /\ UNCHANGED <<serverVars, workerVars>>

\* Lines 180-181 and 196-239: recv returns 0 (the client closed its side)
\* or -1 (the 5 second timeout ran out, or the client reset the connection).
\* The text so far does not parse, so for a text that is not empty line 233
\* sends the invalid-format reply; what that send does depends on what the
\* client has done to the connection by then, and is any of SendOutcomes.
RecvEnds(c) ==
  /\ proc = "alive" /\ hpc[c] = "recv"
  /\ AfterLoop(c, data[c], SendOutcomes)
  /\ UNCHANGED <<data_queue, queue_mutex, fixedVars, success, sock, rcvd, pushed>>
  /\ UNCHANGED <<serverVars, workerVars>>

\* Mutant: the entry goes to the front of the queue.
PushFront(q, e) == <<e>> \o q

\* Mutant: the entry is not stored.
PushLost(q, e) == q

\* std::queue::push, line 54.
Push(q, e) == Append(q, e)

\* addData, line 53: the lock_guard takes queue_mutex.
AddDataLock(c) ==
  /\ proc = "alive" /\ hpc[c] = "addData"
  /\ output_handler = "live"
  /\ queue_mutex = Free
  /\ queue_mutex' = ByHandler(c)
  /\ hpc' = [hpc EXCEPT ![c] = "push"]
  /\ UNCHANGED <<proc, data_queue, fixedVars, data, event, success, sock, sent,
                 rcvd, decoded, pushed>>
  /\ UNCHANGED <<serverVars, workerVars>>

\* addData, lines 54-56: the push, the release and the return of true.
AddDataPush(c) ==
  /\ proc = "alive" /\ hpc[c] = "push"
  /\ output_handler = "live"
  /\ data_queue' = Push(data_queue, [conn |-> c, ev |-> event[c][1]])
  /\ queue_mutex' = Free
  /\ pushed' = Append(pushed, c)
  /\ success' = [success EXCEPT ![c] = TRUE]
  /\ hpc' = [hpc EXCEPT ![c] = "reply"]
  /\ UNCHANGED <<proc, fixedVars, data, event, sock, sent, rcvd, decoded>>
  /\ UNCHANGED <<serverVars, workerVars>>

\* Line 218 after cleanup() destroyed the OutputHandler: undefined
\* behaviour.  The process dies, or the call runs on the freed object and
\* returns true with no live queue written: so through the dangling
\* pointer, and so after line 261 too for a handler that loaded the pointer
\* before it was cleared.
AddDataAfterDelete(c) ==
  /\ proc = "alive" /\ hpc[c] \in {"addData", "push"}
  /\ output_handler /= "live"
  /\ \/ /\ proc' = "crashed"
        /\ UNCHANGED <<hpc, success>>
     \/ /\ success' = [success EXCEPT ![c] = TRUE]
        /\ hpc' = [hpc EXCEPT ![c] = "reply"]
        /\ UNCHANGED proc
  /\ UNCHANGED <<data_queue, queue_mutex, fixedVars, data, event, sock, sent,
                 rcvd, decoded, pushed>>
  /\ UNCHANGED <<serverVars, workerVars>>

\* Lines 220-228: the reply after addData returned.
SendReply(c) ==
  /\ proc = "alive" /\ hpc[c] = "reply"
  /\ \E o \in SendOutcomes : Send(c, ReplyFor(success[c]), o)
  /\ UNCHANGED <<data_queue, queue_mutex, fixedVars, data, event, success,
                 sock, rcvd, decoded, pushed>>
  /\ UNCHANGED <<serverVars, workerVars>>

\* Line 245, CLOSE_SOCKET.  The handler's locals are gone by now, and with
\* the connection what was read from it.
CloseSocket(c) ==
  /\ proc = "alive" /\ hpc[c] = "close"
  /\ sock' = [sock EXCEPT ![c] = "closed"]
  /\ hpc' = [hpc EXCEPT ![c] = "closed"]
  /\ rcvd' = [rcvd EXCEPT ![c] = << >>]
  /\ data' = [data EXCEPT ![c] = << >>]
  /\ event' = [event EXCEPT ![c] = << >>]
  /\ success' = [success EXCEPT ![c] = FALSE]
  /\ UNCHANGED <<proc, data_queue, queue_mutex, fixedVars, sent, decoded,
                 pushed>>
  /\ UNCHANGED <<serverVars, workerVars>>

\* ---------------------------------------------------------- specification

Next ==
  \/ StartListen
  \/ StartFails
  \/ LoopCheck
  \/ AcceptConnection
  \/ AcceptThreadFails
  \/ AcceptFails
  \/ signalHandler
  \/ CleanupStop
  \/ CleanupJoin
  \/ CleanupDelete
  \/ CleanupClear
  \/ ProcessExit
  \/ WorkerCheck
  \/ WorkerLock
  \/ WorkerPoll
  \/ WorkerAppendOpen
  \/ WorkerAppendBlocks
  \/ WorkerAppendHeader
  \/ WorkerAppendRow
  \/ WorkerAppendClose
  \/ WorkerSleep
  \/ \E c \in Conns : RecvParseThrows(c)
  \/ \E c \in Conns : RecvContinue(c)
  \/ \E c \in Conns : RecvComplete(c)
  \/ \E c \in Conns : RecvEnds(c)
  \/ \E c \in Conns : AddDataLock(c)
  \/ \E c \in Conns : AddDataPush(c)
  \/ \E c \in Conns : AddDataAfterDelete(c)
  \/ \E c \in Conns : SendReply(c)
  \/ \E c \in Conns : CloseSocket(c)

Spec == Init /\ [][Next]_vars

\* The scheduler runs the worker thread whenever it can take a step, and a
\* handler that holds queue_mutex goes on to release it.  A call of
\* addDataToExcel that blocks is the step WorkerAppendBlocks: with it taken,
\* no other step of the call is enabled.
Fairness ==
  /\ WF_vars(WorkerCheck \/ WorkerLock \/ WorkerPoll \/ WorkerAppendOpen
               \/ WorkerAppendHeader \/ WorkerAppendRow
               \/ WorkerAppendClose \/ WorkerSleep)
  /\ WF_vars(\E c \in Conns : AddDataPush(c))

LiveSpec == FreshInit /\ [][Next]_vars /\ Fairness

\* The main thread goes on whenever it can take a step: accept returns
\* within its 1 second timeout (line 320) and no statement of start() or
\* cleanup() blocks but the join.
MainFairness ==
  WF_vars(StartListen \/ StartFails \/ LoopCheck \/ AcceptConnection
            \/ AcceptThreadFails \/ AcceptFails \/ CleanupStop \/ CleanupJoin \/ CleanupDelete
            \/ CleanupClear \/ ProcessExit)

ShutdownSpec == FreshInit /\ [][Next]_vars /\ Fairness /\ MainFairness

\* The steps left once the server listens (StartListen and StartFails are
\* behind it).
DevNext ==
  \/ LoopCheck
  \/ AcceptConnection
  \/ AcceptThreadFails
  \/ AcceptFails
  \/ signalHandler
  \/ CleanupStop
  \/ CleanupJoin
  \/ CleanupDelete
  \/ CleanupClear
  \/ ProcessExit
  \/ WorkerCheck
  \/ WorkerLock
  \/ WorkerPoll
  \/ WorkerAppendOpen
  \/ WorkerAppendBlocks
  \/ WorkerAppendHeader
  \/ WorkerAppendRow
  \/ WorkerAppendClose
  \/ WorkerSleep
  \/ \E c \in Conns : RecvParseThrows(c)
  \/ \E c \in Conns : RecvContinue(c)
  \/ \E c \in Conns : RecvComplete(c)
  \/ \E c \in Conns : RecvEnds(c)
  \/ \E c \in Conns : AddDataLock(c)
  \/ \E c \in Conns : AddDataPush(c)
  \/ \E c \in Conns : AddDataAfterDelete(c)
  \/ \E c \in Conns : SendReply(c)
  \/ \E c \in Conns : CloseSocket(c)

DevSpec == DevInit /\ [][DevNext]_vars

\* The pin numbers tried on getPinName (GPIOData::pin is an int).
PinInputs == (0 - MaxPin)..MaxPin

\* The worker has dequeued the event connection 1 sent, its pin any of
\* PinInputs, and is about to call addDataToExcel (line 45).
PinInit ==
  \E p \in PinInputs : \E st \in {"on", "off"} :
    LET e == [device_name |-> "press1", pin |-> p, state |-> st,
              time_diff_sec |-> Dbl(0), timestamp |-> "ts9"]
    IN  /\ proc = "alive"
        /\ spc = "loop"
        /\ running = TRUE
        /\ output_handler = "live"
        /\ accepted = 1
        /\ server_socket = "listening"
        /\ oh_running = TRUE
        /\ data_queue = << >>
        /\ queue_mutex = Free
        /\ wpc = "append"
        /\ item = <<[conn |-> 1, ev |-> e]>>
              /\ files = [d \in Devices |-> Absent]
        /\ hpc = [c \in Conns |-> IF c = 1 THEN "closed" ELSE "idle"]
        /\ data = [c \in Conns |-> << >>]
        /\ event = [c \in Conns |-> << >>]
        /\ success = [c \in Conns |-> FALSE]
        /\ sock = [c \in Conns |-> IF c = 1 THEN "closed" ELSE "none"]
        /\ sent = [c \in Conns |-> IF c = 1 THEN <<ReplyOK>> ELSE << >>]
        /\ rcvd = [c \in Conns |-> << >>]
        /\ decoded = <<[conn |-> 1, ev |-> e]>>
        /\ pushed = <<1>>
        /\ appendLog = << >>
        /\ faults = MaxFaults
        /\ file0 = files
        /\ load = "events"

\* addDataToExcel writes the row, getPinName resolving the pin (line 88).
PinNext ==
  \/ WorkerAppendOpen
  \/ WorkerAppendHeader
  \/ WorkerAppendRow
  \/ WorkerAppendClose

PinSpec == PinInit /\ [][PinNext]_vars

\* ------------------------------------------------------------- properties

Range(q) == {q[i] : i \in 1..Len(q)}

ConnsOf(q) == [i \in 1..Len(q) |-> q[i].conn]

\* Where connection c stands in a sequence of connections (0: nowhere).
Pos(q, c) == IF c \in Range(q) THEN CHOOSE i \in 1..Len(q) : q[i] = c ELSE 0

\* The row the log format prescribes for the events the clients can send:
\* timestamp, pin label, state, time difference.
RowOf(ev) ==
  <<ev.timestamp,
    IF ev.pin = 25 THEN "Red" ELSE "Pin_99",
    ev.state,
    IF ev.time_diff_sec = Dbl(15) THEN "1.5" ELSE "0">>

\* The calls of addDataToExcel for device d that succeeded, in order.
OkAppends(d) ==
  SelectSeq(appendLog, LAMBDA a : a.io = "ok" /\ a.ev.device_name = d)

\* The last four fields of a line.
LastFields(l) == SubSeq(l, Len(l) - 3, Len(l))

\* The lines device d's file has gained since the process started that end
\* with a data row: a line that ends with the header is left out.
NewRows(d) ==
  LET L == files[d].lines
  IN  SelectSeq(SubSeq(L, Len(file0[d].lines) + 1, Len(L)),
                LAMBDA l : LastFields(l) /= Header)

\* Device d's new lines that end with a data row are the lines of the
\* successful appends of d's events, one each and in order: each ends with
\* the event's row, and is that row alone unless it continues a write that
\* was cut short.
RowsFollowAppends(d) ==
  /\ Len(NewRows(d)) = Len(OkAppends(d))
  /\ \A i \in 1..Len(NewRows(d)) :
       LET l == NewRows(d)[i]
       IN  /\ LastFields(l) = RowOf(OkAppends(d)[i].ev)
           /\ "<cut>" \notin Range(l) => l = RowOf(OkAppends(d)[i].ev)

\* C2 as claimed: a log that started absent or empty holds, after N >= 1
\* successful appends for its device, the header as its first line and N data
\* rows after it, none of them a header.
C2_HeaderOnce ==
  \A d \in Devices :
    file0[d].lines = << >> =>
      LET n == Len(OkAppends(d))
          L == files[d].lines
      IN  n >= 1 =>
            /\ Len(L) = n + 1
            /\ L[1] = Header
            /\ \A i \in 2..Len(L) :
                  L[i] /= Header /\ L[i] = RowOf(OkAppends(d)[i - 1].ev)

\* C4: the entries the worker has dequeued, in the order it dequeued them,
\* followed by the entries still waiting, are the entries in the order addData
\* inserted them.
C4_QueueFifo ==
  ConnsOf(appendLog) \o ConnsOf(item) \o ConnsOf(data_queue) = pushed

C4_Witness ==
  /\ pushed = <<2, 1>>
  /\ ConnsOf(item) = <<2>>
  /\ ConnsOf(data_queue) = <<1>>

\* The pairs of successful appends to one device's log, earlier then later.
SameLogPairs ==
  {p \in (1..Len(appendLog)) \X (1..Len(appendLog)) :
     /\ p[1] < p[2]
     /\ appendLog[p[1]].io = "ok" /\ appendLog[p[2]].io = "ok"
     /\ appendLog[p[1]].ev.device_name = appendLog[p[2]].ev.device_name}

\* C3 as claimed: of two rows written to one device's log, the earlier is
\* the one whose event was decoded first.
C3_DecodeOrder ==
  \A p \in SameLogPairs :
    Pos(ConnsOf(decoded), appendLog[p[1]].conn)
      < Pos(ConnsOf(decoded), appendLog[p[2]].conn)

\* C3: of two rows written to one device's log, the earlier is the one
\* whose event addData inserted first, and the log's new rows are the rows of
\* the successful appends in that order.
C3_InsertionOrder ==
  /\ \A p \in SameLogPairs :
       /\ Pos(pushed, appendLog[p[1]].conn) > 0
       /\ Pos(pushed, appendLog[p[1]].conn) < Pos(pushed, appendLog[p[2]].conn)
  /\ \A d \in Devices : RowsFollowAppends(d)

\* Decoded in the order 1, 2, inserted and written in the order 2, 1.
C3_Witness ==
  /\ ConnsOf(decoded) = <<1, 2>>
  /\ pushed = <<2, 1>>
  /\ SameLogPairs /= {}

\* C5 as claimed: a handler that is done with a connection whose bytes are
\* no JSON document has sent the invalid-format reply and enqueued nothing.
C5_MalformedRejected ==
  \A c \in Conns :
    (hpc[c] = "close" /\ rcvd[c] /= << >> /\ ~ParseOk(rcvd[c])) =>
      /\ sent[c] = <<ReplyInvalid>>
      /\ c \notin Range(pushed)
      /\ c \notin Range(ConnsOf(decoded))

\* The events inserted into the queue for device d.
PushedFor(d) ==
  {c \in Range(pushed) :
     \E i \in 1..Len(decoded) :
        decoded[i].conn = c /\ decoded[i].ev.device_name = d}

\* The events accepted for device d: inserted into the queue and
\* acknowledged with OK.
AcceptedFor(d) == {c \in PushedFor(d) : sent[c] = <<ReplyOK>>}

\* C6 as claimed: when the process has ended, each device's log has gained
\* as many rows as events were accepted for the device.
C6_RowsEqualAccepted ==
  proc = "exited" =>
    \A d \in Devices : Len(NewRows(d)) = Cardinality(AcceptedFor(d))

\* C6: each device's log gains exactly one line that ends with a data row
\* per successful append of an event of that device, in the order of the
\* appends and ending with that event's row, and so never more such lines
\* than events were inserted for the device; a log whose device had no event
\* is as it was.
C6_PerDevice ==
  \A d \in Devices :
    /\ RowsFollowAppends(d)
    /\ Len(NewRows(d)) <= Cardinality(PushedFor(d))
    /\ \A i \in 1..Len(OkAppends(d)) : OkAppends(d)[i].conn \in PushedFor(d)
    /\ PushedFor(d) = {} => files[d] = file0[d]

\* Two events for press1 and one for the other device: two rows and one.
C6_Witness ==
  /\ files["press1"].lines
       = <<Header, <<"T1", "Red", "on", "1.5">>, <<"T1", "Red", "on", "1.5">> >>
  /\ files["unknown"].lines = <<Header, <<"ts9", "Pin_99", "unknown", "0">> >>
  /\ Cardinality(AcceptedFor("press1")) = 2
  /\ Cardinality(AcceptedFor("unknown")) = 1

\* C7 as claimed: OK has been sent on a connection only if its event was
\* inserted into the queue, a connection that sent an error inserted none,
\* and a handler that inserted its event and is done has sent OK.
C7_OkIffEnqueued ==
  \A c \in Conns :
    /\ ReplyOK \in Range(sent[c]) => c \in Range(pushed)
    /\ (sent[c] /= << >> /\ ReplyOK \notin Range(sent[c])) =>
          c \notin Range(pushed)
    /\ (hpc[c] \in {"close", "closed"} /\ c \in Range(pushed)) =>
          sent[c] = <<ReplyOK>>

\* A handler whose receive loop ended on recv <= 0, no document decoded.
EndedEarly(c) == hpc[c] = "close" /\ ParseKind(data[c]) = "parse_error"

\* C8 as claimed: a read of no bytes or a read error takes the handler to
\* its close and nothing else: the process is not ended by it, and a handler
\* whose receive loop ended on recv <= 0 has enqueued nothing and sent nothing.
C8_EarlyCloseSilent ==
  /\ proc /= "killed"
  /\ \A c \in Conns :
       EndedEarly(c) => sent[c] = << >> /\ c \notin Range(pushed)

\* The connections whose event is in the queue, with the worker, or has
\* been through addDataToExcel.
InPipeline ==
  Range(ConnsOf(data_queue)) \cup Range(ConnsOf(item))
    \cup Range(ConnsOf(appendLog))

\* The connections whose row has been written.
Written == {appendLog[i].conn : i \in {j \in 1..Len(appendLog) : appendLog[j].io = "ok"}}

\* C9 as claimed: OK has been sent only for an event whose row is written.
C9_WrittenBeforeOk ==
  \A c \in Conns : ReplyOK \in Range(sent[c]) => c \in Written

\* C9: OK has been sent only for an event that was decoded and that
\* addData took: it is in the queue, with the worker or through
\* addDataToExcel, unless the OutputHandler was already destroyed when
\* addData was called.
C9_EnqueuedBeforeOk ==
  \A c \in Conns :
    ReplyOK \in Range(sent[c]) =>
      /\ c \in Range(ConnsOf(decoded))
      /\ c \in InPipeline \/ output_handler /= "live"

\* OK is out and the row is not written yet.
C9_Witness ==
  \E c \in Conns :
    /\ sent[c] = <<ReplyOK>>
    /\ c \in Range(ConnsOf(data_queue))
    /\ output_handler = "live"

Replies == {ReplyOK, ReplyInvalid, ReplyInternal, ReplyFailed}

\* C10: on every connection at most one reply is sent, one of the four
\* texts; once it is sent nothing more is sent or read on the connection, and
\* the handler has only the close left to do.
C10_OneReply ==
  /\ [](\A c \in Conns :
          /\ Len(sent[c]) <= 1
          /\ Range(sent[c]) \subseteq Replies
          /\ sent[c] /= << >> => hpc[c] \in {"close", "closed"})
  /\ [][\A c \in Conns :
          sent[c] /= << >> =>
            /\ sent'[c] = sent[c]
            /\ Len(rcvd'[c]) <= Len(rcvd[c])
            /\ hpc'[c] \in {"close", "closed"}]_vars

C10_Witness ==
  \E c \in Conns : Len(sent[c]) = 1 /\ hpc[c] = "closed" /\ sock[c] = "closed"

\* C1 as claimed, at the end of the process: every event addData inserted
\* has its row in a log.
C1_AllWritten ==
  proc = "exited" => \A c \in Range(pushed) : c \in Written

\* The event a handler builds from the document its connection carried.
Expected(text) ==
  IF text[1] = "O1"
  THEN {[device_name |-> "press1", pin |-> 25, state |-> "on",
         time_diff_sec |-> [neg |-> FALSE, mag |-> 15], timestamp |-> t] :
          t \in ServerTimes}
  ELSE {[device_name |-> "unknown", pin |-> 99, state |-> "unknown",
         time_diff_sec |-> [neg |-> FALSE, mag |-> 0], timestamp |-> "ts9"]}

\* The text of the row of the item the worker holds.
ItemRow ==
  <<item[1].ev.timestamp,
    IF item[1].ev.pin = 25 THEN "Red" ELSE "Pin_99",
    item[1].ev.state,
    IF item[1].ev.time_diff_sec.mag = 15 THEN "1.5" ELSE "0">>

\* What a step does to the logs.  Only the worker, inside addDataToExcel,
\* changes a log, and only the log of its item's device: opening creates the
\* file; the header goes into an empty file only; a write of the header or
\* of the row, at the flush or again at close(), either puts the whole line
\* at the end of the file, ending the line any cut write before it began, or
\* leaves a part of it there, unterminated (so does a write that SIGXFSZ
\* ends, and the process with it).  The call is recorded as
\* successful exactly when it wrote the row whole; a call recorded as failed
\* for a write has added no line or one line that ends with the header, and a
\* call recorded as failed with an error has changed nothing as it returns.
AppendStep ==
  /\ files' /= files =>
       /\ item /= << >>
       /\ wpc \in {"append", "header", "row", "rowbad", "close"}
       /\ LET d == item[1].ev.device_name
              old == files[d]
              new == files'[d]
              text == IF wpc \in {"header", "rowbad"} THEN Header ELSE ItemRow
          IN  /\ \A e \in Devices \ {d} : files'[e] = files[e]
              /\ wpc = "append" =>
                    /\ ~old.exists /\ new.exists
                    /\ new.lines = old.lines /\ new.tail = old.tail
              /\ wpc = "header" => old.lines = << >> /\ old.tail = << >>
              /\ wpc /= "append" =>
                    /\ new.exists
                    /\ \/ /\ new.lines = Append(old.lines, old.tail \o text)
                          /\ new.tail = << >>
                       \/ /\ new.lines = old.lines
                          /\ new.tail = old.tail \o text \o <<"<cut>">>
  /\ appendLog' /= appendLog =>
       LET a == appendLog'[Len(appendLog')]
           d == a.ev.device_name
           rowWritten ==
             /\ wpc \in {"row", "close"}
             /\ files'[d].lines = Append(files[d].lines, files[d].tail \o ItemRow)
       IN  /\ appendLog' = Append(appendLog, a)
           /\ item = <<[conn |-> a.conn, ev |-> a.ev]>>
           /\ a.conn \notin Range(ConnsOf(appendLog))
           /\ a.io = "ok" <=> rowWritten
           /\ a.io = "lost" =>
                 \/ files'[d].lines = files[d].lines
                 \/ /\ wpc = "rowbad"
                    /\ files'[d].lines = Append(files[d].lines, files[d].tail \o Header)
           /\ a.io = "error" => files' = files
  /\ (wpc = "row" /\ item /= << >>
        /\ Len(files'[item[1].ev.device_name].lines)
              > Len(files[item[1].ev.device_name].lines))
       => appendLog' /= appendLog

\* C1 (the clients are those of the load "events"): every event inserted
\* into the queue is eventually taken through
\* exactly one call of addDataToExcel, unless the worker is stopped, the
\* process ends or a call of addDataToExcel blocks first; the event is the one
\* its connection carried, defaults substituted, and a successful call
\* writes its row (timestamp, pin label, state, time difference) and a line
\* break at the end of its device's log, each step of a call doing to the
\* logs what AppendStep says.
C1_Pipeline ==
  /\ \A c \in Clients("events") :
       (c \in Range(ConnsOf(data_queue)))
         ~> (\/ c \in Range(ConnsOf(appendLog))
             \/ ~oh_running \/ proc /= "alive" \/ wpc = "blocked")
  /\ [][AppendStep]_vars
  /\ [](\A c \in Conns :
          hpc[c] \in {"addData", "push", "reply"} =>
            /\ event[c][1] \in Expected(data[c])
            /\ \E i \in 1..Len(decoded) :
                 decoded[i].conn = c /\ decoded[i].ev = event[c][1])
  /\ [](\A e \in Range(data_queue) \cup Range(item) \cup Range(appendLog) :
          \E i \in 1..Len(decoded) :
            decoded[i].conn = e.conn /\ decoded[i].ev = e.ev)

\* An event sent without a timestamp has its row in its device's log.
C1_Witness ==
  \E i \in 1..Len(appendLog) :
    /\ appendLog[i].io = "ok"
    /\ appendLog[i].ev.device_name = "press1"
    /\ files["press1"].lines[Len(files["press1"].lines)]
         = <<appendLog[i].ev.timestamp, "Red", "on", "1.5">>

\* The connections whose entries are through addDataToExcel, with the
\* worker or in the queue, in that order.
Entries == ConnsOf(appendLog) \o ConnsOf(item) \o ConnsOf(data_queue)

\* A step that takes an entry out of the queue.
Dequeues == Len(data_queue') < Len(data_queue)

\* C11: no entry is in the queue, with the worker or through addDataToExcel
\* twice; every log has gained exactly one line that ends with a data row
\* per successful append of an event of its device, and a step adds at most
\* one line to one log, so an event has at most one row, in one log; and an
\* entry leaves the queue only in a step of the worker that holds queue_mutex
\* and takes the oldest entry, and only that entry, as its item.
C11_NoDuplication ==
  /\ [](/\ \A i, j \in 1..Len(Entries) : i /= j => Entries[i] /= Entries[j]
        /\ \A d \in Devices : Len(NewRows(d)) = Len(OkAppends(d))
        /\ Len(item) <= 1)
  /\ [][\A d \in Devices :
          /\ Len(files'[d].lines) <= Len(files[d].lines) + 1
          /\ Len(files'[d].lines) > Len(files[d].lines) =>
                \A e \in Devices \ {d} : files'[e] = files[e]]_vars
  /\ [][Dequeues =>
          /\ wpc = "locked" /\ queue_mutex = ByWorker
          /\ item = << >> /\ item' = <<Head(data_queue)>>
          /\ data_queue' = Tail(data_queue)
          /\ pushed' = pushed]_vars

\* Both connections' events went through the queue into one log that held
\* rows before.
C11_Witness ==
  /\ Len(appendLog) = 2
  /\ \A i \in 1..2 : appendLog[i].io = "ok" /\ appendLog[i].ev.device_name = "press1"
  /\ file0["press1"] = OldFile
  /\ Len(files["press1"].lines) = 4

Digit(k) ==
  CASE k = 0 -> "0" [] k = 1 -> "1" [] k = 2 -> "2" [] k = 3 -> "3"
    [] k = 4 -> "4" [] k = 5 -> "5" [] k = 6 -> "6" [] k = 7 -> "7"
    [] k = 8 -> "8" [] k = 9 -> "9"

\* The decimal form of an integer, digit by digit.
RECURSIVE Decimal(_)
Decimal(n) ==
  IF n < 0 THEN "-" \o Decimal(0 - n)
  ELSE IF n < 10 THEN Digit(n)
  ELSE Decimal(n \div 10) \o Digit(n % 10)

\* The label the pin table prescribes.
PinLabel(n) ==
  CASE n = 23 -> "Green"
    [] n = 24 -> "Yellow"
    [] n = 25 -> "Red"
    [] n = 12 -> "Load"
    [] OTHER  -> "Pin_" \o Decimal(n)

\* C12: the pin field of every row written is the fixed label of a known
\* pin (23 Green, 24 Yellow, 25 Red, 12 Load) and "Pin_" followed by the
\* decimal form of any other pin number, whatever the rest of the event is.
C12_PinLabel ==
  \A i \in 1..Len(appendLog) :
    appendLog[i].io = "ok" =>
      LET L == files[appendLog[i].ev.device_name].lines
      IN  /\ LastFields(L[Len(L)])[2] = PinLabel(appendLog[i].ev.pin)
          /\ getPinName(appendLog[i].ev.pin) = PinLabel(appendLog[i].ev.pin)

C12_Witness ==
  /\ Len(appendLog) = 1
  /\ appendLog[1].io = "ok"
  /\ appendLog[1].ev.pin = 99
  /\ files["press1"].lines[2][2] = "Pin_99"

\* The stop flag is set and the worker is between two iterations, or out of
\* its loop.
WorkerStopped == ~oh_running /\ wpc \in {"check", "exited"}

\* C13: the stop flag is never cleared again; once it is set and the
\* worker has finished its iteration, the worker starts no other iteration,
\* no entry leaves the queue and no log changes; and the entries in the queue
\* of a worker that has left its loop have no row.
C13_NonDraining ==
  /\ [][~oh_running => ~oh_running']_vars
  /\ [][WorkerStopped =>
          /\ WorkerStopped'
          /\ Len(data_queue') >= Len(data_queue)
          /\ item' = item /\ appendLog' = appendLog /\ files' = files]_vars
  /\ [](wpc = "exited" =>
          /\ ~oh_running /\ item = << >>
          /\ \A c \in Range(ConnsOf(data_queue)) : c \notin Written)

\* The process has ended with an entry still in the queue.
C13_Witness ==
  /\ proc = "exited" /\ wpc = "exited"
  /\ data_queue /= << >>
  /\ \A d \in Devices : files[d] = file0[d]

\* The calls of addDataToExcel that returned without the row written.
Failed == {i \in 1..Len(appendLog) : appendLog[i].io /= "ok"}

\* A step in which a call of addDataToExcel fails.
AppendFails ==
  /\ appendLog' /= appendLog
  /\ appendLog'[Len(appendLog')].io /= "ok"

\* C14: a call of addDataToExcel that fails (the file does not open, an
\* exception is raised, or a write fails unnoticed and the row is not
\* written whole) returns with no log changed in the returning step when the
\* file did not open or an exception was raised; it leaves the queue as it
\* is, and leaves the worker alive at the head of its loop with no item and
\* its stop flag untouched; the event of a failed call is never again in the
\* queue or with the worker, has no second call and no row.  (A write
\* that meets the file size limit is none of these failures: it raises
\* SIGXFSZ and the call does not return.)
C14_ErrorContained ==
  /\ [][AppendFails =>
          /\ appendLog'[Len(appendLog')].io = "error" => files' = files
          /\ data_queue' = data_queue
          /\ item' = << >>
          /\ wpc' = "check"
          /\ oh_running' = oh_running
          /\ proc' = "alive"]_vars
  /\ [](\A i \in Failed :
          /\ appendLog[i].conn \notin Range(ConnsOf(data_queue))
          /\ appendLog[i].conn \notin Range(ConnsOf(item))
          /\ appendLog[i].conn \notin Written
          /\ \A j \in 1..Len(appendLog) :
                appendLog[j].conn = appendLog[i].conn => j = i)

\* After a failed append the worker has written the next entry's row.
C14_Witness ==
  /\ Len(appendLog) = 2
  /\ appendLog[1].io = "error"
  /\ appendLog[2].io = "ok"
  /\ Len(NewRows(appendLog[2].ev.device_name)) = 1

\* Where a handler is while its connection is in use.
InHandler == {"recv", "addData", "push", "reply", "close"}

\* C15 as claimed: a connection's socket is open exactly while its handler
\* runs and closed once the handler is done, whatever the handler sent; no
\* read error ends the process in place of the close; the socket is closed
\* in one step only, the handler's last, from open; and on a closed socket
\* nothing is read or sent and the handler does nothing more.
C15_ClosedOnce ==
  /\ [](proc /= "killed")
  /\ [](\A c \in Conns :
          /\ sock[c] = "none" <=> hpc[c] = "idle"
          /\ sock[c] = "open" <=> hpc[c] \in InHandler
          /\ sock[c] = "closed" <=> hpc[c] = "closed")
  /\ [][\A c \in Conns :
          (sock'[c] = "closed" /\ sock[c] /= "closed") =>
             sock[c] = "open" /\ hpc[c] = "close" /\ hpc'[c] = "closed"]_vars
  /\ [][\A c \in Conns :
          sock[c] = "closed" =>
             /\ sock'[c] = "closed" /\ hpc'[c] = "closed"
             /\ sent'[c] = sent[c] /\ rcvd'[c] = rcvd[c]]_vars

\* A step in which connection c's call of addData returns.
AddDataReturns(c) == hpc[c] \in {"addData", "push"} /\ hpc'[c] = "reply"

\* C16: "ERROR: Failed to process data" is on no connection; a call of
\* addData that returns has returned true; and a call on the live
\* OutputHandler returns with its entry inserted at the back of the queue.
C16_EnqueueNeverFails ==
  /\ [](\A c \in Conns :
          /\ ReplyFailed \notin Range(sent[c])
          /\ hpc[c] = "reply" => success[c])
  /\ [][\A c \in Conns :
          AddDataReturns(c) =>
            /\ success'[c]
            /\ output_handler = "live" =>
                 /\ queue_mutex = ByHandler(c)
                 /\ data_queue' =
                      Append(data_queue, [conn |-> c, ev |-> event[c][1]])]_vars

\* addData has returned true for an event that is in the queue; the reply
\* is still to be sent.
C16_Witness ==
  \E c \in Conns :
    /\ hpc[c] = "reply" /\ success[c]
    /\ data_queue /= << >>
    /\ data_queue[Len(data_queue)].conn = c

\* The main thread is in start(), up to the end of the accept loop.
InStart == spc \in {"start", "loop", "accept"}

\* OutputHandler::cleanup has returned: the worker is stopped and joined.
WorkerJoined ==
  /\ ~InStart /\ spc \notin {"cleanup", "join"}
  /\ ~oh_running /\ wpc = "exited"

\* C17 as claimed: once running is false the accept loop is eventually left
\* and the worker eventually stopped and joined; the worker is stopped only
\* after the accept loop is left, and after that no connection is accepted;
\* and neither the stop nor the join waits for a handler: each can be taken
\* whatever the handlers are doing.
C17_Shutdown ==
  /\ (~running) ~> (~InStart)
  /\ (~running) ~> WorkerJoined
  /\ [](~oh_running => ~InStart)
  /\ [][~InStart =>
          /\ ~InStart' /\ accepted' = accepted
          /\ \A c \in Conns : hpc[c] = "idle" => hpc'[c] = "idle"]_vars
  /\ [](proc = "alive" /\ spc = "cleanup" => ENABLED CleanupStop)
  /\ [](proc = "alive" /\ spc = "join" /\ wpc = "exited" => ENABLED CleanupJoin)

\* C18: when socket, bind or listen has failed, the main thread is out of
\* start(), no connection has been accepted, no handler has run, and nothing
\* has been decoded, enqueued or appended.
C18_StartFailure ==
  server_socket = "failed" =>
    /\ ~InStart
    /\ accepted = 0
    /\ \A c \in Conns : hpc[c] = "idle" /\ sock[c] = "none" /\ sent[c] = << >>
    /\ decoded = << >> /\ pushed = << >>
    /\ data_queue = << >> /\ item = << >> /\ appendLog = << >>
    /\ files = file0

\* The process has ended after start() failed.
C18_Witness == server_socket = "failed" /\ proc = "exited"

\* The connections whose handler is running.
ActiveHandlers == {c \in Conns : hpc[c] \in InHandler}

\* C19: while the main thread is in accept and a client is connecting, the
\* connection can be accepted, and its handler started, however many
\* handlers are running; and the step that accepts a connection waits for no
\* handler: it leaves every other handler where it is and either starts the
\* connection's handler at once and returns to the loop test or, when the
\* thread cannot be created, leaves the accept loop for cleanup().
C19_NoConnectionCap ==
  /\ [](proc = "alive" /\ spc = "accept" /\ accepted < Len(Offered(load)) =>
          ENABLED AcceptConnection)
  /\ [][accepted' /= accepted =>
          /\ accepted' = accepted + 1
          /\ sock'[accepted'] = "open"
          /\ \A c \in Conns \ {accepted'} : hpc'[c] = hpc[c]
          /\ \/ hpc'[accepted'] = "recv" /\ spc' = "loop"
             \/ hpc'[accepted'] = "nothread" /\ spc' = "cleanup"]_vars

\* More handlers are running than max_connections.
C19_Witness == Cardinality(ActiveHandlers) > max_connections

\* C20 as claimed: no handler uses the OutputHandler after cleanup() has
\* destroyed it: the process has not died in addData, no handler is inside
\* addData on a destroyed OutputHandler, and every call of addData that has
\* returned has inserted its event into the queue.
C20_NoUseAfterTeardown ==
  /\ proc /= "crashed"
  /\ \A c \in Conns : hpc[c] = "push" => output_handler = "live"
  /\ \A c \in Conns : hpc[c] = "reply" => c \in Range(pushed)

\* The thread that changes the queue in this step holds queue_mutex: the
\* worker in its poll, or a handler in addData's push.
ChangedByHolder ==
  \/ queue_mutex = ByWorker /\ wpc = "locked"
  \/ \E c \in Conns : queue_mutex = ByHandler(c) /\ hpc[c] = "push"

\* C21: the queue changes, and the worker takes an item from it, only in
\* a step of the thread that holds queue_mutex; the worker holds queue_mutex
\* exactly while it polls the queue, so not while it appends or sleeps; a
\* handler that is to push holds it; and while the worker appends or sleeps a
\* handler calling addData on the live OutputHandler can take queue_mutex
\* unless another handler holds it.
C21_LockDiscipline ==
  /\ [][data_queue' /= data_queue => ChangedByHolder]_vars
  /\ [][(item' /= item /\ item' /= << >>) =>
          queue_mutex = ByWorker /\ wpc = "locked"]_vars
  /\ [](queue_mutex = ByWorker <=> wpc = "locked")
  /\ [](\A c \in Conns : hpc[c] = "push" => queue_mutex = ByHandler(c))
  /\ [](\A c \in Conns :
          (/\ wpc \in {"append", "header", "row", "rowbad", "close", "sleep"}
           /\ proc = "alive" /\ output_handler = "live"
           /\ hpc[c] = "addData"
           /\ \A o \in Conns : queue_mutex /= ByHandler(o))
            => ENABLED AddDataLock(c))

\* A handler holds queue_mutex for its push while the worker is in
\* addDataToExcel.
C21_Witness ==
  /\ wpc = "row"
  /\ \E c \in Conns : hpc[c] = "push" /\ queue_mutex = ByHandler(c)

=============================================================================
